---- MODULE Spec2Model ----
(***************************************************************************)
(* A model of src/main.py: one request of the trip planner.                *)
(*   main -> get_places_from_ai -> extract_location_from_prompt            *)
(*        -> (language model) -> json.loads                                *)
(*        -> validate_place_with_google_maps per place -> rendering        *)
(* plus the two helpers main never calls, validate_coordinates and         *)
(* create_google_maps_embed, each under a specification of its own.        *)
(*                                                                         *)
(* The responses of the external services (the language model, the text    *)
(* search and the place details endpoints) are the inputs of the model and *)
(* are drawn from small sets.  Coordinates are whole degrees.              *)
(***************************************************************************)
EXTENDS Integers, Sequences, FiniteSets, TLC

\* ------------------------------------------------------------------------
\* Bounds of the model
\* ------------------------------------------------------------------------
\* Longest JSON array the language model returns.
MaxPlaces == 3
\* Longest list handed to create_google_maps_embed.
MaxEmbed == 3

\* ------------------------------------------------------------------------
\* Program constants
\* ------------------------------------------------------------------------
MaxLat == 90
MaxLng == 180

GOOGLE_MAPS_API_KEY == "KEY"

\* ------------------------------------------------------------------------
\* Python values
\* ------------------------------------------------------------------------
PyNone == [t |-> "None"]
PyNum(n) == [t |-> "num", n |-> n]
PyStr(s) == [t |-> "str", s |-> s]
PyBool(b) == [t |-> "bool", b |-> b]
\* A float that is not a whole number of degrees: nan, inf, -inf.
PyFloat(k) == [t |-> "float", k |-> k]
\* A dict: d is a function from its keys to their values.
PyDict(d) == [t |-> "dict", d |-> d]

\* d[k] = v of a dict (the key is added when missing)
SetItem(p, k, v) ==
    PyDict([x \in (DOMAIN p.d) \cup {k} |-> IF x = k THEN v ELSE p.d[x]])

\* k in d
HasKey(p, k) == p.t = "dict" /\ k \in DOMAIN p.d

\* truthiness, as "if x:" and "not x" use it (values the program tests only)
Truthy(v) ==
    CASE v.t = "None" -> FALSE
      [] v.t = "str" -> v.s # ""
      [] v.t = "text" -> v.c # <<>>
      [] v.t = "list" -> Len(v.items) > 0
      [] OTHER -> TRUE

PyList(items) == [t |-> "list", items |-> items]
\* A string built by an f-string or read from a response, as its pieces.
PyText(c) == [t |-> "text", c |-> c]

\* str(v) inside an f-string
Fmt(v) ==
    CASE v.t = "num" -> ToString(v.n)
      [] v.t = "str" -> v.s
      [] v.t = "bool" -> IF v.b THEN "True" ELSE "False"
      [] OTHER -> "None"

\* ------------------------------------------------------------------------
\* str.strip() on a text given as its sequence of characters
\* ------------------------------------------------------------------------
RECURSIVE LStrip(_)
LStrip(s) ==
    IF s = <<>> THEN s
    ELSE IF Head(s) = " " THEN LStrip(Tail(s)) ELSE s

RECURSIVE RStrip(_)
RStrip(s) ==
    IF s = <<>> THEN s
    ELSE IF s[Len(s)] = " " THEN RStrip(SubSeq(s, 1, Len(s) - 1)) ELSE s

strip(s) == RStrip(LStrip(s))

\* ------------------------------------------------------------------------
\* Responses of the external services
\* ------------------------------------------------------------------------
\* The language model answering the extraction request: the call raises, or
\* message.content is None, or it is a text.
ExtractContents == {<<>>, <<" ">>, <<" ", " ">>, <<" ", "P", " ">>}
ExtractResponses ==
    {[kind |-> "raise", content |-> <<>>], [kind |-> "none", content |-> <<>>]}
        \cup {[kind |-> "text", content |-> c] : c \in ExtractContents}

\* Candidate places as the language model writes them.
CandidateNames == {"A", "B"}
Candidate(n) ==
    PyDict([name |-> PyStr(n), description |-> PyStr("d"),
            latitude |-> PyNum(0), longitude |-> PyNum(0)])
\* An object without the 'name' key.
Nameless ==
    PyDict([description |-> PyStr("d"), latitude |-> PyNum(0), longitude |-> PyNum(0)])
Elements == {Candidate(n) : n \in CandidateNames} \cup {Nameless, PyStr("x")}

SeqsUpTo(S, n) == UNION {[1..k -> S] : k \in 0..n}

\* What a JSON text denotes: an array, an object (by its keys), a number, null.
JsonValues ==
    {PyList(items) : items \in SeqsUpTo(Elements, MaxPlaces)}
        \cup {[t |-> "object", keys |-> <<>>], [t |-> "object", keys |-> <<"name">>],
              PyNum(5), PyNone}

\* The content of the recommendation answer: text that parses to a JSON value,
\* or text that does not parse.
GenContents ==
    {[parses |-> FALSE, value |-> PyNone]}
        \cup {[parses |-> TRUE, value |-> v] : v \in JsonValues}
GenResponses ==
    {[kind |-> "raise", content |-> [parses |-> FALSE, value |-> PyNone]]}
        \cup {[kind |-> "text", content |-> c] : c \in GenContents}

\* Text search: requests.get or .json() raises (or the body has no 'status'),
\* or a body with a status and results.
SearchResponses ==
    {[kind |-> "raise", status |-> "", results |-> <<>>]}
        \cup {[kind |-> "json", status |-> s, results |-> r] :
                 s \in {"OK", "ZERO_RESULTS"}, r \in {<<>>, <<"p1", "p2">>}}

\* Place details: raises, or a body with a status and a result.
CoordPairs == {<<48, 2>>, <<91, 181>>}
DetailsResponses ==
    {[kind |-> "raise", status |-> "", hasGeometry |-> FALSE, lat |-> 0, lng |-> 0,
      hasPhotos |-> FALSE, photos |-> <<>>]}
        \cup {[kind |-> "json", status |-> "NOT_FOUND", hasGeometry |-> FALSE,
               lat |-> 0, lng |-> 0, hasPhotos |-> FALSE, photos |-> <<>>]}
        \cup {[kind |-> "json", status |-> "OK", hasGeometry |-> FALSE,
               lat |-> 0, lng |-> 0, hasPhotos |-> FALSE, photos |-> <<>>]}
        \cup {[kind |-> "json", status |-> "OK", hasGeometry |-> TRUE,
               lat |-> c[1], lng |-> c[2], hasPhotos |-> ph[1], photos |-> ph[2]] :
                 c \in CoordPairs,
                 ph \in {<<FALSE, <<>> >>, <<TRUE, <<>> >>, <<TRUE, <<"r1", "r2">> >>}}
\* What the details endpoint answers when it is not asked.
NotAsked ==
    [kind |-> "raise", status |-> "", hasGeometry |-> FALSE, lat |-> 0, lng |-> 0,
     hasPhotos |-> FALSE, photos |-> <<>>]

\* ------------------------------------------------------------------------
\* State
\* ------------------------------------------------------------------------
VARIABLES
    pc,                \* where the request is: "start", "generate", "loop", "done"
    user_prompt,       \* main: the text area's content, "" until the click
    extract_response,  \* extract_location_from_prompt: what the language model answered
    location,          \* get_places_from_ai: the extracted location
    content,           \* get_places_from_ai: the content of the recommendation answer
    places,            \* get_places_from_ai: the sequence the for loop iterates
    i,                 \* get_places_from_ai: position of the for loop (1-based)
    validated_places,  \* get_places_from_ai: the list being built
    result,            \* main: what get_places_from_ai returned
    calls,             \* every external call issued, in order
    lookups,           \* per finished lookup: the search response and the returned tuple
    ui,                \* what streamlit was told to show, in order
    vc_lat, vc_lng, vc_result,   \* validate_coordinates: arguments and result
    embed_places, embed_url      \* create_google_maps_embed: argument and result

flowVars == <<pc, user_prompt, extract_response, location, content, places, i,
              validated_places, result, calls, lookups, ui>>
coordVars == <<vc_lat, vc_lng, vc_result>>
embedVars == <<embed_places, embed_url>>
vars == <<pc, user_prompt, extract_response, location, content, places, i,
          validated_places, result, calls, lookups, ui, vc_lat, vc_lng, vc_result, embed_places, embed_url>>

Unset == [t |-> "unset"]
Call(api, idx, arg) == [api |-> api, idx |-> idx, arg |-> arg]
Msg(kind, text) == [kind |-> kind, text |-> text]

\* ------------------------------------------------------------------------
\* extract_location_from_prompt
\* ------------------------------------------------------------------------
\* The return value and what it tells streamlit to show.
extract_location_from_prompt(resp) ==
    IF resp.kind = "text"
    THEN [ret |-> PyText(strip(resp.content)), ui |-> <<>>]
    ELSE \* the call raised, or None.strip() did: the except branch
         [ret |-> PyNone, ui |-> <<Msg("error", <<"Error extracting location: ", "e">>)>>]

\* ------------------------------------------------------------------------
\* validate_place_with_google_maps
\* ------------------------------------------------------------------------
NotFound ==
    [is_valid |-> FALSE, google_lat |-> PyNone, google_lng |-> PyNone,
     place_id |-> PyNone, maps_url |-> PyNone, photo_url |-> PyNone]

\* Mutation: "or" in place of "and" in the test of line 62.
SearchAcceptedEither(data) == data.status = "OK" \/ Len(data.results) > 0
\* the test of line 62
SearchAccepted(data) == data.status = "OK" /\ Len(data.results) > 0

\* whether lines 62-68 get as far as the details request
DetailsRequested(sr) == sr.kind = "json" /\ SearchAccepted(sr) /\ Len(sr.results) > 0

\* The returned tuple and the requests made, given what the two endpoints
\* answer (the details answer is read only if that request is made).
validate_place_with_google_maps(place_name, loc, sr, dr) ==
    LET search_query == <<Fmt(place_name), ", ">> \o loc.c
        searched == <<[api |-> "textsearch", arg |-> search_query]>>
    IN  IF sr.kind = "raise" THEN [ret |-> NotFound, requests |-> searched]
        ELSE IF ~SearchAccepted(sr) THEN [ret |-> NotFound, requests |-> searched]
        ELSE IF Len(sr.results) = 0   \* data['results'][0] raises IndexError
             THEN [ret |-> NotFound, requests |-> searched]
        ELSE
          LET place_id == sr.results[1]
              both == Append(searched, [api |-> "details", arg |-> <<place_id>>])
          IN  IF dr.kind = "raise" THEN [ret |-> NotFound, requests |-> both]
              ELSE IF dr.status # "OK" THEN [ret |-> NotFound, requests |-> both]
              ELSE IF ~dr.hasGeometry   \* result['geometry'] raises KeyError
                   THEN [ret |-> NotFound, requests |-> both]
              ELSE
                LET photo_url ==
                      IF dr.hasPhotos /\ Len(dr.photos) > 0
                      THEN PyText(<<"https://maps.googleapis.com/maps/api/place/photo?maxwidth=800&photo_reference=",
                                    dr.photos[1], "&key=", GOOGLE_MAPS_API_KEY>>)
                      ELSE PyNone
                IN  [ret |-> [is_valid |-> TRUE, google_lat |-> PyNum(dr.lat),
                              google_lng |-> PyNum(dr.lng), place_id |-> PyStr(place_id),
                              maps_url |-> PyStr("U"), photo_url |-> photo_url],
                     requests |-> both]

\* ------------------------------------------------------------------------
\* get_places_from_ai, piece by piece
\* ------------------------------------------------------------------------
\* Mutation: a parser that repairs unparsable text into a list.
json_loads_lenient(text) ==
    IF text.parses THEN [raised |-> FALSE, value |-> text.value]
    ELSE [raised |-> FALSE, value |-> PyList(<<Candidate("A")>>)]
\* json.loads(content)
json_loads(text) ==
    IF text.parses THEN [raised |-> FALSE, value |-> text.value]
    ELSE [raised |-> TRUE, value |-> PyNone]

\* iter(places) of the for statement: a list yields its items, a dict its keys,
\* anything else raises TypeError.
Iter(value) ==
    CASE value.t = "list" -> [raised |-> FALSE, items |-> value.items]
      [] value.t = "object" ->
            [raised |-> FALSE, items |-> [k \in 1..Len(value.keys) |-> PyStr(value.keys[k])]]
      [] OTHER -> [raised |-> TRUE, items |-> <<>>]

\* Mutation: insert(0, x) in place of append.
append_front(list, x) == <<x>> \o list
\* list.append
append(list, x) == Append(list, x)

\* Mutation: a failed lookup is tried again.
NextIndexRetry(k, is_valid) == IF is_valid THEN k + 1 ELSE k
\* the for statement moving on after an iteration
NextIndex(k, is_valid) == k + 1

\* lines 148-152: the place with the looked-up fields written into it
Enrich(place, r) ==
    SetItem(SetItem(SetItem(SetItem(SetItem(place,
        "latitude", r.google_lat), "longitude", r.google_lng),
        "place_id", r.place_id), "maps_url", r.maps_url), "photo_url", r.photo_url)

\* line 160
ReturnValue(validated) == IF Len(validated) > 0 THEN PyList(validated) ELSE PyNone

\* Mutation: the except branch returning what was validated so far.
ExceptReturnPartial(validated) == ReturnValue(validated)
\* lines 161-164: the value returned from the except branch
ExceptReturn(validated) == PyNone

ExceptMsg == Msg("error", <<"Error getting recommendations: ", "e">>)
SkipMsg(place) ==
    Msg("warning", <<"Skipped '", Fmt(place.d["name"]),
                     "' due to invalid coordinates. Please try again.">>)

\* ------------------------------------------------------------------------
\* create_individual_map_embed and main's rendering
\* ------------------------------------------------------------------------
create_individual_map_embed(place) ==
    <<"https://www.google.com/maps/embed/v1/view", "?key=", GOOGLE_MAPS_API_KEY,
      "&center=", Fmt(place.d["latitude"]), ",", Fmt(place.d["longitude"]), "&zoom=16">>

\* urllib.parse.quote on the pieces of "name@lat,lng": '@' and ',' are escaped
QuotePiece(s) == IF s = "@" THEN "%40" ELSE IF s = "," THEN "%2C" ELSE s
quote(pieces) == [k \in 1..Len(pieces) |-> QuotePiece(pieces[k])]

RECURSIVE Flatten(_)
Flatten(ss) == IF ss = <<>> THEN <<>> ELSE Head(ss) \o Flatten(Tail(ss))

\* '/'.join(...)
RECURSIVE Join(_, _)
Join(sep, ss) ==
    IF ss = <<>> THEN <<>>
    ELSE IF Len(ss) = 1 THEN ss[1]
    ELSE ss[1] \o <<sep>> \o Join(sep, Tail(ss))

\* lines 221-239 for one place
RenderPlace(k, place) ==
    <<Msg("markdown", <<"### ", ToString(k), ". ", Fmt(place.d["name"])>>)>>
    \o (IF Truthy(place.d["photo_url"])
        THEN <<Msg("image", place.d["photo_url"].c)>> ELSE <<>>)
    \o <<Msg("write", <<Fmt(place.d["description"])>>),
         Msg("iframe", create_individual_map_embed(place)),
         Msg("write", <<"[View on Google Maps](", Fmt(place.d["maps_url"]), ")">>),
         Msg("write", <<"---">>)>>

\* lines 218-244: what main shows for the value get_places_from_ai returned
Render(res) ==
    IF ~Truthy(res) THEN <<>>
    ELSE
      LET ps == res.items
          locations == [k \in 1..Len(ps) |->
                          <<Fmt(ps[k].d["name"]), "@", Fmt(ps[k].d["latitude"]), ",",
                            Fmt(ps[k].d["longitude"])>>]
          combined_map_link ==
              <<"https://www.google.com/maps/dir/">>
                \o Join("/", [k \in 1..Len(ps) |-> quote(locations[k])])
      IN  <<Msg("subheader", <<"Recommended Places">>)>>
          \o Flatten([k \in 1..Len(ps) |-> RenderPlace(k, ps[k])])
          \o <<Msg("write", <<"[View all locations on Google Maps](">> \o combined_map_link \o <<")">>)>>

\* get_places_from_ai returns res to main, which renders it
Finish(res, shown) ==
    /\ pc' = "done"
    /\ result' = res
    /\ ui' = shown \o Render(res)

\* ------------------------------------------------------------------------
\* validate_coordinates
\* ------------------------------------------------------------------------
Fin(n) == [k |-> "fin", n |-> n]
NaN == [k |-> "nan", n |-> 0]

\* The strings the model passes in, and the float each denotes, if any.
StringInputs == {"45", " 90 ", "-91", "nan", "abc", ""}
Denotes(s) ==
    CASE s = "45" -> <<Fin(45)>>
      [] s = " 90 " -> <<Fin(90)>>
      [] s = "-91" -> <<Fin(0 - 91)>>
      [] s = "nan" -> <<NaN>>
      [] OTHER -> <<>>

\* float(x): the float, or an exception (ValueError, TypeError)
float(x) ==
    CASE x.t = "num" -> [raised |-> FALSE, v |-> Fin(x.n)]
      [] x.t = "bool" -> [raised |-> FALSE, v |-> Fin(IF x.b THEN 1 ELSE 0)]
      [] x.t = "float" -> [raised |-> FALSE, v |-> [k |-> x.k, n |-> 0]]
      [] x.t = "str" ->
            IF Denotes(x.s) = <<>> THEN [raised |-> TRUE, v |-> NaN]
            ELSE [raised |-> FALSE, v |-> Denotes(x.s)[1]]
      [] OTHER -> [raised |-> TRUE, v |-> NaN]

\* a <= b on floats
Le(a, b) ==
    CASE a.k = "nan" \/ b.k = "nan" -> FALSE
      [] a.k = "ninf" \/ b.k = "inf" -> TRUE
      [] a.k = "inf" \/ b.k = "ninf" -> FALSE
      [] OTHER -> a.n <= b.n

\* a < b on floats
Lt(a, b) == Le(a, b) /\ ~Le(b, a)

\* Mutation: the bounds taken exclusive.
validate_coordinates_exclusive(lat, lng) ==
    LET la == float(lat)
        lo == float(lng)
    IN  IF la.raised \/ lo.raised THEN [raised |-> FALSE, value |-> FALSE]
        ELSE IF ~(Lt(Fin(0 - MaxLat), la.v) /\ Lt(la.v, Fin(MaxLat))
                  /\ Lt(Fin(0 - MaxLng), lo.v) /\ Lt(lo.v, Fin(MaxLng)))
             THEN [raised |-> FALSE, value |-> FALSE]
        ELSE [raised |-> FALSE, value |-> TRUE]

\* Whether the call raises, and the value it returns.
validate_coordinates(lat, lng) ==
    LET la == float(lat)
        lo == float(lng)
    IN  IF la.raised \/ lo.raised
        THEN [raised |-> FALSE, value |-> FALSE]      \* except: return False
        ELSE IF ~(Le(Fin(0 - MaxLat), la.v) /\ Le(la.v, Fin(MaxLat))
                  /\ Le(Fin(0 - MaxLng), lo.v) /\ Le(lo.v, Fin(MaxLng)))
             THEN [raised |-> FALSE, value |-> FALSE]
        ELSE [raised |-> FALSE, value |-> TRUE]

CoordInputs ==
    {PyNum(n) : n \in {0 - 181, 0 - 180, 0 - 91, 0 - 90, 0, 90, 91, 180, 181}}
        \cup {PyStr(s) : s \in StringInputs}
        \cup {PyFloat(k) : k \in {"nan", "inf", "ninf"}}
        \cup {PyNone, PyBool(TRUE), PyList(<<>>)}

\* ------------------------------------------------------------------------
\* create_google_maps_embed
\* ------------------------------------------------------------------------
MarkerPrefix == "&markers=color:red|label:"
CenterPrefix == "&q=place_id:"

\* line 183
marker(k, place) ==
    <<MarkerPrefix, ToString(k), "|", Fmt(place.d["latitude"]), ",",
      Fmt(place.d["longitude"])>>

\* Mutation: enumerate(places) counting from 0.
create_google_maps_embed_from0(ps) ==
    IF ~Truthy(ps) \/ Len(ps.items) = 0 THEN PyNone
    ELSE
      LET first_place == ps.items[1]
          markers == [k \in 1..Len(ps.items) |-> marker(k - 1, ps.items[k])]
      IN  PyText(<<"https://www.google.com/maps/embed/v1/place", "?key=", GOOGLE_MAPS_API_KEY,
                   CenterPrefix, Fmt(first_place.d["place_id"]), "&zoom=12">>
                 \o Flatten(markers))

create_google_maps_embed(ps) ==
    IF ~Truthy(ps) \/ Len(ps.items) = 0 THEN PyNone
    ELSE
      LET first_place == ps.items[1]
          markers == [k \in 1..Len(ps.items) |-> marker(k, ps.items[k])]
      IN  PyText(<<"https://www.google.com/maps/embed/v1/place", "?key=", GOOGLE_MAPS_API_KEY,
                   CenterPrefix, Fmt(first_place.d["place_id"]), "&zoom=12">>
                 \o Flatten(markers))

\* Validated places as get_places_from_ai builds them.
EmbedPlaces ==
    {Enrich(Candidate("A"),
            [is_valid |-> TRUE, google_lat |-> PyNum(c[1]), google_lng |-> PyNum(c[2]),
             place_id |-> PyStr(id), maps_url |-> PyStr("U"), photo_url |-> PyNone]) :
        c \in CoordPairs \cup {<<0 - 90, 180>>}, id \in {"p1", "p2"}}
EmbedInputs ==
    {PyNone} \cup {PyList(ps) : ps \in SeqsUpTo(EmbedPlaces, MaxEmbed)}

\* ------------------------------------------------------------------------
\* The request: main, get_places_from_ai
\* ------------------------------------------------------------------------
IdleCoords == vc_lat = PyNone /\ vc_lng = PyNone /\ vc_result = Unset
IdleEmbed == embed_places = PyNone /\ embed_url = Unset
IdleFlow ==
    /\ pc = "off"
    /\ user_prompt = ""
    /\ extract_response = Unset
    /\ location = Unset
    /\ content = Unset
    /\ places = <<>>
    /\ i = 1
    /\ validated_places = <<>>
    /\ result = Unset
    /\ calls = <<>>
    /\ lookups = <<>>
    /\ ui = <<>>

\* The page is drawn and the text area holds what the user typed.
Init ==
    /\ pc = "start"
    /\ user_prompt \in {"", "q"}
    /\ extract_response = Unset
    /\ location = Unset
    /\ content = Unset
    /\ places = <<>>
    /\ i = 1
    /\ validated_places = <<>>
    /\ result = Unset
    /\ calls = <<>>
    /\ lookups = <<>>
    /\ ui = <<>>
    /\ IdleCoords
    /\ IdleEmbed

\* main, lines 212-213 and 245-246: the button with an empty text area
ClickNoPrompt ==
    /\ pc = "start"
    /\ user_prompt = ""
    /\ pc' = "done"
    /\ ui' = Append(ui, Msg("warning", <<"Please enter a prompt to get recommendations.">>))
    /\ UNCHANGED <<user_prompt, extract_response, location, content, places, i,
                   validated_places, result, calls, lookups>>
    /\ UNCHANGED <<coordVars, embedVars>>

\* main, lines 212-216, get_places_from_ai, lines 100-103, and
\* extract_location_from_prompt
ClickExtract ==
    /\ pc = "start"
    /\ user_prompt # ""
    /\ \E resp \in ExtractResponses :
         LET e == extract_location_from_prompt(resp)
         IN  /\ calls' = Append(calls, Call("extract", 0, <<user_prompt>>))
             /\ extract_response' = resp
             /\ location' = e.ret
             /\ IF ~Truthy(e.ret)
                THEN Finish(PyNone, ui \o e.ui)
                ELSE /\ pc' = "generate"
                     /\ ui' = ui \o e.ui
                     /\ UNCHANGED result
    /\ UNCHANGED <<user_prompt, content, places, i, validated_places, lookups>>
    /\ UNCHANGED <<coordVars, embedVars>>

\* get_places_from_ai, lines 126-145: the recommendation call, json.loads and
\* the start of the for loop
Generate ==
    /\ pc = "generate"
    /\ \E resp \in GenResponses :
         LET parsed == json_loads(resp.content)
             it == Iter(parsed.value)
         IN  /\ calls' = Append(calls, Call("generate", 0, <<user_prompt>> \o location.c))
             /\ content' = IF resp.kind = "text" THEN resp.content ELSE Unset
             /\ IF resp.kind = "raise" \/ parsed.raised \/ it.raised
                THEN /\ Finish(ExceptReturn(validated_places), Append(ui, ExceptMsg))
                     /\ UNCHANGED <<places, i>>
                ELSE /\ places' = it.items
                     /\ i' = 1
                     /\ pc' = "loop"
                     /\ UNCHANGED <<result, ui>>
    /\ UNCHANGED <<user_prompt, extract_response, location, validated_places, lookups>>
    /\ UNCHANGED <<coordVars, embedVars>>

\* get_places_from_ai, lines 145-157: one iteration of the for loop, with the
\* call of validate_place_with_google_maps
LoopStep ==
    /\ pc = "loop"
    /\ i <= Len(places)
    /\ LET place == places[i]
       IN  IF ~HasKey(place, "name")   \* place['name'] raises KeyError or TypeError
           THEN /\ Finish(ExceptReturn(validated_places), Append(ui, ExceptMsg))
                /\ UNCHANGED <<i, validated_places, calls, lookups>>
           ELSE \E sr \in SearchResponses :
                \E dr \in (IF DetailsRequested(sr) THEN DetailsResponses ELSE {NotAsked}) :
                  LET v == validate_place_with_google_maps(place.d["name"], location, sr, dr)
                      r == v.ret
                  IN  /\ calls' = calls \o [k \in 1..Len(v.requests) |->
                                              Call(v.requests[k].api, i, v.requests[k].arg)]
                      /\ lookups' = Append(lookups, [idx |-> i, search |-> sr, ret |-> r])
                      /\ IF r.is_valid
                         THEN /\ validated_places' = append(validated_places, Enrich(place, r))
                              /\ ui' = ui
                         ELSE /\ ui' = Append(ui, SkipMsg(place))
                              /\ UNCHANGED validated_places
                      /\ i' = NextIndex(i, r.is_valid)
                      /\ UNCHANGED <<pc, result>>
    /\ UNCHANGED <<user_prompt, extract_response, location, content, places>>
    /\ UNCHANGED <<coordVars, embedVars>>

\* get_places_from_ai, lines 159-160, and main, lines 218-244
Return ==
    /\ pc = "loop"
    /\ i > Len(places)
    /\ Finish(ReturnValue(validated_places), ui)
    /\ UNCHANGED <<user_prompt, extract_response, location, content, places, i,
                   validated_places, calls, lookups>>
    /\ UNCHANGED <<coordVars, embedVars>>

Next == ClickNoPrompt \/ ClickExtract \/ Generate \/ LoopStep \/ Return

Spec == Init /\ [][Next]_vars

\* ------------------------------------------------------------------------
\* validate_coordinates applied to a pair of arguments
\* ------------------------------------------------------------------------
InitCoords ==
    /\ IdleFlow
    /\ IdleEmbed
    /\ vc_lat \in CoordInputs
    /\ vc_lng \in CoordInputs
    /\ vc_result = Unset

CallValidateCoordinates ==
    /\ vc_result = Unset
    /\ vc_result' = validate_coordinates(vc_lat, vc_lng)
    /\ UNCHANGED <<vc_lat, vc_lng>>
    /\ UNCHANGED <<flowVars, embedVars>>

NextCoords == CallValidateCoordinates

SpecCoords == InitCoords /\ [][NextCoords]_vars

\* ------------------------------------------------------------------------
\* create_google_maps_embed applied to a list of validated places
\* ------------------------------------------------------------------------
InitEmbed ==
    /\ IdleFlow
    /\ IdleCoords
    /\ embed_places \in EmbedInputs
    /\ embed_url = Unset

CallCreateEmbed ==
    /\ embed_url = Unset
    /\ embed_url' = create_google_maps_embed(embed_places)
    /\ UNCHANGED embed_places
    /\ UNCHANGED <<flowVars, coordVars>>

NextEmbed == CallCreateEmbed

SpecEmbed == InitEmbed /\ [][NextEmbed]_vars

\* ------------------------------------------------------------------------
\* Properties
\* ------------------------------------------------------------------------
LookupCall(c) == c.api \in {"textsearch", "details"}
CallsOf(api) == {c \in 1..Len(calls) : calls[c].api = api}
ErrorShown == \E m \in 1..Len(ui) : ui[m].kind = "error"
WellFormed(place) == HasKey(place, "name")
\* the text-search answer is a body whose status is not "OK" or whose results are empty
SearchRejected(sr) == sr.kind = "json" /\ (sr.status # "OK" \/ Len(sr.results) = 0)

\* C1: whenever the text search answers with a status other than "OK" or with
\* no results, validate_place_with_google_maps returns (False, None, None,
\* None, None, None) and no details request is made for that place.
C1_RejectedSearchIsNotFound ==
    \A k \in 1..Len(lookups) :
        SearchRejected(lookups[k].search) =>
            /\ lookups[k].ret = NotFound
            /\ ~\E c \in CallsOf("details") : calls[c].idx = lookups[k].idx

\* a lookup whose search said ZERO_RESULTS and yet listed results, and one whose
\* search said OK with nothing listed
C1_Witness ==
    /\ \E k \in 1..Len(lookups) :
          /\ lookups[k].search.kind = "json"
          /\ lookups[k].search.status # "OK"
          /\ Len(lookups[k].search.results) > 0
    /\ \E k \in 1..Len(lookups) :
          /\ lookups[k].search.kind = "json"
          /\ lookups[k].search.status = "OK"
          /\ Len(lookups[k].search.results) = 0

\* C2: when the recommendation content does not parse as JSON,
\* get_places_from_ai returns None, an error is shown, and no text-search or
\* details request is made.
C2_UnparsableContentFails ==
    (content # Unset /\ ~content.parses) =>
        /\ pc = "done"
        /\ result = PyNone
        /\ ErrorShown
        /\ \A c \in 1..Len(calls) : ~LookupCall(calls[c])

C2_Witness ==
    /\ content # Unset
    /\ ~content.parses
    /\ pc = "done"
    /\ Len(calls) = 2

\* the lookups that succeeded, in the order they were made
Succeeded == SelectSeq(lookups, LAMBDA l : l.ret.is_valid)

\* C3: with well-formed candidates only, a failed lookup drops that place alone
\* and the loop goes on: every candidate is looked up once, in order, and
\* validated_places is the candidates whose lookup succeeded, in their order,
\* each carrying the coordinates that lookup returned.
C3_ValidatedIsSucceededSubsequence ==
    (pc = "done" /\ content # Unset /\ \A k \in 1..Len(places) : WellFormed(places[k])) =>
        /\ Len(lookups) = Len(places)
        /\ \A k \in 1..Len(lookups) : lookups[k].idx = k
        /\ Len(validated_places) = Len(Succeeded)
        /\ \A j \in 1..Len(Succeeded) :
              /\ validated_places[j].d["name"] = places[Succeeded[j].idx].d["name"]
              /\ validated_places[j].d["description"] = places[Succeeded[j].idx].d["description"]
              /\ validated_places[j].d["latitude"] = Succeeded[j].ret.google_lat
              /\ validated_places[j].d["longitude"] = Succeeded[j].ret.google_lng
              /\ validated_places[j].d["place_id"] = Succeeded[j].ret.place_id

\* three candidates, the second one not found, the first and the third kept
C3_Witness ==
    /\ pc = "done"
    /\ Len(places) = 3
    /\ \A k \in 1..Len(places) : WellFormed(places[k])
    /\ places[1].d["name"] # places[3].d["name"]
    /\ Len(lookups) = 3
    /\ lookups[1].ret.is_valid
    /\ ~lookups[2].ret.is_valid
    /\ lookups[3].ret.is_valid
    /\ lookups[1].ret.google_lat # lookups[3].ret.google_lat
    /\ Len(validated_places) = 2

\* a message about the request as a whole, not about one skipped place
OverallReport(m) == m.kind \in {"error", "warning"} /\ m.text[1] # "Skipped '"
AllNotFound ==
    /\ pc = "done"
    /\ user_prompt # ""
    /\ Len(places) > 0
    /\ Len(lookups) = Len(places)
    /\ \A k \in 1..Len(lookups) : ~lookups[k].ret.is_valid

\* C4: when a query was submitted and every candidate place is not found, the
\* user is shown a report about the request as a whole.
C4_AllNotFoundIsReported ==
    AllNotFound => \E m \in 1..Len(ui) : OverallReport(ui[m])

\* C4, the part the code keeps: what is shown after every place was not found
\* is never what is shown for an empty prompt; it is one warning per skipped
\* place and nothing else.
C4_OnlySkipWarningsShown ==
    AllNotFound =>
        /\ Len(ui) = Len(places)
        /\ \A m \in 1..Len(ui) : ui[m] = SkipMsg(places[m])
        /\ result = PyNone

\* the extraction failed: the call raised, or the content was None or blank
ExtractionFailed ==
    /\ extract_response # Unset
    /\ \/ extract_response.kind # "text"
       \/ strip(extract_response.content) = <<>>

\* C5: when the extraction fails, for either cause, the request ends with no
\* recommendation call and no place lookup, and an error is shown.
C5_ExtractionFailureAbortsAndIsShown ==
    ExtractionFailed =>
        /\ pc = "done"
        /\ result = PyNone
        /\ Len(calls) = 1
        /\ ErrorShown

\* C5, the part the code keeps: a failed extraction ends the request with no
\* further call, and an error is shown when the call (or None.strip()) raised.
C5_ExtractionFailureAborts ==
    ExtractionFailed =>
        /\ pc = "done"
        /\ result = PyNone
        /\ Len(calls) = 1
        /\ extract_response.kind # "text" => ErrorShown
        /\ extract_response.kind = "text" => ui = <<>>

\* C7: every place get_places_from_ai returns has its latitude in [-90, 90] and
\* its longitude in [-180, 180].
C7_ReturnedCoordinatesInBounds ==
    result.t = "list" =>
        \A k \in 1..Len(result.items) :
            /\ result.items[k].d["latitude"].t = "num"
            /\ result.items[k].d["latitude"].n >= 0 - MaxLat
            /\ result.items[k].d["latitude"].n <= MaxLat
            /\ result.items[k].d["longitude"].t = "num"
            /\ result.items[k].d["longitude"].n >= 0 - MaxLng
            /\ result.items[k].d["longitude"].n <= MaxLng

\* C9: no call is repeated and the calls are in order: one extraction first,
\* at most one recommendation call, second and only after an extraction that
\* gave a location, then per place at most one text search followed at once by
\* at most one details request, place by place in the order of the list.
C9_CallsOnceAndInOrder ==
    /\ \A c \in CallsOf("extract") : c = 1
    /\ \A c \in CallsOf("generate") : c = 2 /\ calls[1].api = "extract" /\ Truthy(location)
    /\ \A c \in 1..Len(calls) :
          LookupCall(calls[c]) =>
              /\ c > 2
              /\ calls[2].api = "generate"
              /\ calls[c].idx \in 1..Len(places)
    /\ \A c, e \in 1..Len(calls) :
          (c < e /\ LookupCall(calls[c]) /\ LookupCall(calls[e])) =>
              /\ calls[c].idx <= calls[e].idx
              /\ calls[c].api = calls[e].api => calls[c].idx < calls[e].idx
    /\ \A c \in CallsOf("details") :
          calls[c - 1].api = "textsearch" /\ calls[c - 1].idx = calls[c].idx
    /\ \A c \in CallsOf("textsearch") :
          calls[c].idx > 1 =>
              \E e \in CallsOf("textsearch") : e < c /\ calls[e].idx = calls[c].idx - 1

\* three places looked up, the first and the last with a details request
C9_Witness ==
    /\ pc = "done"
    /\ Len(calls) = 7
    /\ calls[4].api = "details"
    /\ calls[5].api = "textsearch"
    /\ calls[6].api = "textsearch"
    /\ calls[7].api = "details"

\* the first position of places that is not an object with a 'name'
FirstMalformed ==
    IF \E k \in 1..Len(places) : ~WellFormed(places[k])
    THEN CHOOSE k \in 1..Len(places) :
            ~WellFormed(places[k]) /\ \A j \in 1..(k - 1) : WellFormed(places[j])
    ELSE 0

\* C10: when the content parses but position k is not a well-formed candidate
\* (or the payload cannot be iterated), the request returns None whatever was
\* validated before k, and no lookup is made for position k or after it.
C10_MalformedElementFailsWhole ==
    /\ (content # Unset /\ content.parses /\ Iter(content.value).raised) =>
          pc = "done" /\ result = PyNone /\ \A c \in 1..Len(calls) : ~LookupCall(calls[c])
    /\ FirstMalformed > 0 =>
          /\ \A c \in 1..Len(calls) : LookupCall(calls[c]) => calls[c].idx < FirstMalformed
          /\ pc = "done" => (result = PyNone /\ i = FirstMalformed)

\* one place validated, then a malformed second, a third never looked up
C10_Witness ==
    /\ pc = "done"
    /\ FirstMalformed = 2
    /\ Len(places) = 3
    /\ Len(validated_places) = 1
    /\ result = PyNone
    /\ Len(lookups) = 1

\* ---- validate_coordinates ----
\* the whole degrees a value stands for, if it is a number or a string writing a
\* finite one
Degrees(v) ==
    CASE v.t = "num" -> {v.n}
      [] v.t = "bool" -> {IF v.b THEN 1 ELSE 0}
      [] v.t = "str" -> {Denotes(v.s)[k].n : k \in {j \in 1..Len(Denotes(v.s)) : Denotes(v.s)[j].k = "fin"}}
      [] OTHER -> {}
Within(v, m) == \E n \in Degrees(v) : 0 - m <= n /\ n <= m

\* C8: validate_coordinates returns True exactly when both arguments are
\* numbers with the latitude in [-90, 90] and the longitude in [-180, 180],
\* bounds included, False otherwise, and it never raises.
C8_ValidExactlyInBounds ==
    vc_result # Unset =>
        /\ ~vc_result.raised
        /\ vc_result.value = (Within(vc_lat, 90) /\ Within(vc_lng, 180))

\* the corner (90, -180) is valid
C8_Witness ==
    /\ vc_result # Unset
    /\ vc_lat = PyNum(90)
    /\ vc_lng = PyNum(0 - 180)
    /\ vc_result.value

\* ---- create_google_maps_embed ----
\* the positions of the marker clauses in a URL
MarkerAt(url) == {p \in 1..Len(url) : url[p] = MarkerPrefix}
\* the position of the j-th of them
NthMarker(url, j) ==
    CHOOSE p \in MarkerAt(url) : Cardinality({q \in MarkerAt(url) : q < p}) = j - 1

\* C6: for N >= 1 places the URL has exactly N marker clauses, the i-th
\* labelled i with the coordinates of the i-th place, and its q parameter is
\* the place_id of the first place.
C6_OneNumberedMarkerPerPlace ==
    (embed_url # Unset /\ embed_places.t = "list" /\ Len(embed_places.items) > 0) =>
        /\ embed_url.t = "text"
        /\ Cardinality(MarkerAt(embed_url.c)) = Len(embed_places.items)
        /\ \A j \in 1..Len(embed_places.items) :
              LET p == NthMarker(embed_url.c, j)
                  place == embed_places.items[j]
              IN  /\ p + 5 <= Len(embed_url.c)
                  /\ embed_url.c[p + 1] = ToString(j)
                  /\ embed_url.c[p + 2] = "|"
                  /\ embed_url.c[p + 3] = ToString(place.d["latitude"].n)
                  /\ embed_url.c[p + 4] = ","
                  /\ embed_url.c[p + 5] = ToString(place.d["longitude"].n)
        /\ Cardinality({p \in 1..Len(embed_url.c) : embed_url.c[p] = CenterPrefix}) = 1
        /\ \A p \in 1..Len(embed_url.c) :
              embed_url.c[p] = CenterPrefix =>
                  /\ p < Len(embed_url.c)
                  /\ embed_url.c[p + 1] = embed_places.items[1].d["place_id"].s

\* three places, the first two with different place ids and coordinates
C6_Witness ==
    /\ embed_url # Unset
    /\ embed_places.t = "list"
    /\ Len(embed_places.items) = 3
    /\ embed_places.items[1].d["place_id"] # embed_places.items[2].d["place_id"]
    /\ embed_places.items[1].d["latitude"] # embed_places.items[2].d["latitude"]
    /\ embed_url.t = "text"

====
